---- MODULE Spec2Model ----
(***************************************************************************)
(* Invoice generator (hlesesne/inv-gen): the totals engine (utils.ts), the *)
(* record store over IndexedDB (storage.ts), the data model (schema.ts)    *)
(* and the editor / history handlers of app.ts that drive them.            *)
(*                                                                         *)
(* Numbers.  The program computes in IEEE doubles; the model computes in   *)
(* exact decimal fixed point: every money amount is an integer count of    *)
(* 1/Scale currency units, quantities and percentages are plain integers.  *)
(* On the bounded inputs every "/ 100" of the engine is exact, which       *)
(* ExactDivisions checks.  Binary rounding of doubles is not modelled.     *)
(*                                                                         *)
(* Optional fields (discountPct?, taxRatePct?, shipping?, ...) are <<>>    *)
(* when undefined and <<v>> when set.                                      *)
(***************************************************************************)
EXTENDS Integers, Sequences, FiniteSets, TLC

VARIABLES
  store,          \* object store 'invoices': stored id -> invoice record
  settings,       \* object store 'settings': key -> value
  currentInvoice, \* app.ts: let currentInvoice (Null or an invoice record)
  nextId,         \* number of invoice ids generateId() has handed out
  yearMonth,      \* calendar month of `new Date()` (local time)
  importing,      \* importData call in flight: what is left to write
  steps,          \* number of handler calls so far
  invoice,        \* totals engine under test: the argument
  result,         \* totals engine under test: the returned Totals (or Null)
  now,            \* the clock `new Date()` reads
  call,           \* the last call of the store's API: its arguments and outcome
  exported,       \* the last document exportData() returned (Null: none yet)
  pending,        \* the debounce timer that is running (Null: none)
  deleted         \* history: the ids deleteInvoice() of the history view removed

vars == <<store, settings, currentInvoice, nextId, yearMonth,
          importing, steps, invoice, result, now, call, exported, pending, deleted>>

appVars == <<store, settings, currentInvoice, nextId, yearMonth,
             importing, steps, now, call, exported, pending, deleted>>

\* `null` / `undefined` where a record is expected
Null == [null |-> TRUE]

\* ---------------------------------------------------------------- bounds

MaxItems == 2           \* line items of an invoice handed to the totals engine
MaxPayments == 1        \* payments of an invoice handed to the totals engine
MaxIds == 3             \* generateId() calls in one run
MaxMonth == 1           \* calendar months that pass in one run
MaxSteps == 6           \* handler calls in one run
MaxEditorItems == 1     \* line items of an invoice in the editor
MaxStoredPayments == 2  \* payments of an invoice in the editor or the store
MaxCalls == 4           \* calls of the store's API in one run
MaxNow == 1             \* ticks of the clock in one run

\* ------------------------------------------------------- number encoding

Scale == 100 * 100

Unset == <<>>

Some(v) == <<v>>

\* JS truthiness of an optional number: `x ? .. : ..`, `x || 0`
Truthy(x) == x # Unset /\ x[1] # 0

\* `x && x > 0`
Positive(x) == x # Unset /\ x[1] > 0

\* `x || 0`
OrZero(x) == IF Truthy(x) THEN x[1] ELSE 0

\* ----------------------------------------------------- schema (defaults)

InvoiceStatus == {"draft", "sent", "paid", "overdue", "archived"}

\* faulty variant: a blank invoice starts with a shipping fee
DEFAULT_ADJUSTMENTS_withShipping ==
  [shipping |-> Some(5 * Scale), globalDiscountPct |-> Some(0),
   globalTaxPct |-> Some(0)]

DEFAULT_ADJUSTMENTS ==
  [shipping |-> Some(0), globalDiscountPct |-> Some(0), globalTaxPct |-> Some(0)]

DEFAULT_TOTALS ==
  [subtotal |-> 0, tax |-> 0, discount |-> 0, grandTotal |-> 0,
   amountPaid |-> 0, balanceDue |-> 0]

\* the clock counts in ticks, TicksPerDay of them to the day
\* (1000 * 60 * 60 * 24 milliseconds)
TicksPerDay == 2

\* `new Date().toISOString().split('T')[0]`: the (UTC) day an instant falls in
toISODate(t) == t \div TicksPerDay

\* DEFAULT_SELLER and DEFAULT_CLIENT, of which this model reads the name;
\* a text is the sequence of its characters
DEFAULT_SELLER == [name |-> << >>]

DEFAULT_CLIENT == [name |-> << >>]

\* `INV-${year}${month}-${String(sequence).padStart(4, '0')}`: the text is
\* determined by, and determines, the calendar month and the sequence
generateInvoiceNumber(sequence, ym) == [ym |-> ym, seq |-> sequence]

\* createBlankInvoice(sequence), with the id generateId() returns and the
\* month `new Date()` falls in
createBlankInvoice(id, sequence, ym) ==
  [id |-> id,
   number |-> generateInvoiceNumber(sequence, ym),
   status |-> "draft",
   createdAt |-> now,
   updatedAt |-> now,
   dueDate |-> toISODate(now),
   seller |-> DEFAULT_SELLER,
   client |-> DEFAULT_CLIENT,
   items |-> << >>,
   adjustments |-> DEFAULT_ADJUSTMENTS,
   payments |-> << >>,
   notes |-> Unset,
   totals |-> DEFAULT_TOTALS]

\* ---------------------------------------------------------- totals engine

\* invoice.items.reduce((sum, item) => sum + item.quantity * item.unitPrice, 0)
RECURSIVE SumSubtotal(_)
SumSubtotal(items) ==
  IF items = <<>> THEN 0
  ELSE LET item == items[Len(items)]
       IN  SumSubtotal(SubSeq(items, 1, Len(items) - 1))
             + item.quantity * item.unitPrice

\* the item-level discount reduce
RECURSIVE SumItemDiscounts(_)
SumItemDiscounts(items) ==
  IF items = <<>> THEN 0
  ELSE LET item == items[Len(items)]
           sum  == SumItemDiscounts(SubSeq(items, 1, Len(items) - 1))
       IN  IF Positive(item.discountPct)
           THEN sum + (item.quantity * item.unitPrice * item.discountPct[1]) \div 100
           ELSE sum

\* faulty variant: item tax computed on the item's amount before its own discount
ItemTax_beforeDiscount(item) ==
  (item.quantity * item.unitPrice * item.taxRatePct[1]) \div 100

\* one item's contribution to the item-level tax reduce
ItemTax(item) ==
  LET itemSubtotal == item.quantity * item.unitPrice
      itemAfterDiscount ==
        IF Truthy(item.discountPct)
        THEN (itemSubtotal * (100 - item.discountPct[1])) \div 100
        ELSE itemSubtotal
  IN  (itemAfterDiscount * item.taxRatePct[1]) \div 100

\* the item-level tax reduce
RECURSIVE SumItemTaxes(_)
SumItemTaxes(items) ==
  IF items = <<>> THEN 0
  ELSE LET item == items[Len(items)]
           sum  == SumItemTaxes(SubSeq(items, 1, Len(items) - 1))
       IN  IF Positive(item.taxRatePct) THEN sum + ItemTax(item) ELSE sum

\* invoice.payments.reduce((sum, payment) => sum + payment.amount, 0)
RECURSIVE SumPayments(_)
SumPayments(payments) ==
  IF payments = <<>> THEN 0
  ELSE SumPayments(SubSeq(payments, 1, Len(payments) - 1))
         + payments[Len(payments)].amount

GlobalDiscount(inv) ==
  LET subtotalAfterItemDiscounts == SumSubtotal(inv.items) - SumItemDiscounts(inv.items)
  IN  IF Truthy(inv.adjustments.globalDiscountPct)
      THEN (subtotalAfterItemDiscounts * inv.adjustments.globalDiscountPct[1]) \div 100
      ELSE 0

\* faulty variant: shipping left out of the amount
AmountWithShipping_noShipping(inv) ==
  SumSubtotal(inv.items) - SumItemDiscounts(inv.items) - GlobalDiscount(inv)

AmountWithShipping(inv) ==
  LET subtotalAfterItemDiscounts == SumSubtotal(inv.items) - SumItemDiscounts(inv.items)
      amountAfterDiscounts == subtotalAfterItemDiscounts - GlobalDiscount(inv)
      shipping == OrZero(inv.adjustments.shipping)
  IN  amountAfterDiscounts + shipping

\* faulty variant: global tax computed on the raw subtotal
GlobalTax_onSubtotal(inv) ==
  IF Truthy(inv.adjustments.globalTaxPct)
  THEN (SumSubtotal(inv.items) * inv.adjustments.globalTaxPct[1]) \div 100
  ELSE 0

\* faulty variant: global tax computed before shipping is added
GlobalTax_beforeShipping(inv) ==
  IF Truthy(inv.adjustments.globalTaxPct)
  THEN ((AmountWithShipping(inv) - OrZero(inv.adjustments.shipping))
          * inv.adjustments.globalTaxPct[1]) \div 100
  ELSE 0

GlobalTax(inv) ==
  IF Truthy(inv.adjustments.globalTaxPct)
  THEN (AmountWithShipping(inv) * inv.adjustments.globalTaxPct[1]) \div 100
  ELSE 0

\* faulty variant: a negative balance clamped to zero
calculateInvoiceTotals_clamped(inv) ==
  LET totalTax   == SumItemTaxes(inv.items) + GlobalTax(inv)
      grandTotal == AmountWithShipping(inv) + totalTax
      amountPaid == SumPayments(inv.payments)
  IN  [subtotal |-> SumSubtotal(inv.items), tax |-> totalTax,
       discount |-> SumItemDiscounts(inv.items) + GlobalDiscount(inv),
       grandTotal |-> grandTotal, amountPaid |-> amountPaid,
       balanceDue |-> IF grandTotal < amountPaid THEN 0
                      ELSE grandTotal - amountPaid]

calculateInvoiceTotals(inv) ==
  LET subtotal      == SumSubtotal(inv.items)
      itemDiscounts == SumItemDiscounts(inv.items)
      totalDiscount == itemDiscounts + GlobalDiscount(inv)
      totalTax      == SumItemTaxes(inv.items) + GlobalTax(inv)
      grandTotal    == AmountWithShipping(inv) + totalTax
      amountPaid    == SumPayments(inv.payments)
      balanceDue    == grandTotal - amountPaid
  IN  [subtotal |-> subtotal, tax |-> totalTax, discount |-> totalDiscount,
       grandTotal |-> grandTotal, amountPaid |-> amountPaid,
       balanceDue |-> balanceDue]

\* ------------------------------------------- totals engine: bounded inputs

ItemQuantities == {1, 2}

ItemPrices == {50 * Scale, 100 * Scale}

ItemDiscountPcts == {Unset, Some(10)}

ItemTaxPcts == {Unset, Some(20)}

ItemInputs ==
  [quantity : ItemQuantities, unitPrice : ItemPrices,
   discountPct : ItemDiscountPcts, taxRatePct : ItemTaxPcts]

AdjustmentInputs ==
  [shipping : {Unset, Some(0), Some(5 * Scale)},
   globalDiscountPct : {Unset, Some(0), Some(10)},
   globalTaxPct : {Unset, Some(0), Some(10)}]

PaymentInputs == [amount : {100 * Scale, 300 * Scale}]

SeqsUpTo(S, n) == UNION {[1..k -> S] : k \in 0..n}

InvoiceInputs ==
  [items : SeqsUpTo(ItemInputs, MaxItems),
   adjustments : AdjustmentInputs,
   payments : SeqsUpTo(PaymentInputs, MaxPayments)]

\* ------------------------------------------ specification: totals engine

AppIdle ==
  /\ store = << >>
  /\ settings = << >>
  /\ currentInvoice = Null
  /\ nextId = 0
  /\ yearMonth = 0
  /\ importing = Null
  /\ steps = 0
  /\ now = 0
  /\ call = Null
  /\ exported = Null
  /\ pending = Null
  /\ deleted = {}

InitTotals ==
  /\ AppIdle
  /\ invoice \in InvoiceInputs
  /\ result = Null

\* const totals = calculateInvoiceTotals(invoice)
ComputeTotals ==
  /\ result = Null
  /\ result' = calculateInvoiceTotals(invoice)
  /\ UNCHANGED <<invoice, appVars>>

NextTotals == ComputeTotals

SpecTotals == InitTotals /\ [][NextTotals]_vars

\* every "/ 100" of the engine is exact on the bounded inputs
ExactDivisions ==
  LET sub == SumSubtotal(invoice.items) - SumItemDiscounts(invoice.items)
  IN  /\ \A i \in 1..Len(invoice.items) :
           LET item == invoice.items[i]
               s == item.quantity * item.unitPrice
           IN  /\ (s * OrZero(item.discountPct)) % 100 = 0
               /\ (s * (100 - OrZero(item.discountPct))) % 100 = 0
               /\ (((s * (100 - OrZero(item.discountPct))) \div 100)
                     * OrZero(item.taxRatePct)) % 100 = 0
      /\ (sub * OrZero(invoice.adjustments.globalDiscountPct)) % 100 = 0
      /\ (AmountWithShipping(invoice) * OrZero(invoice.adjustments.globalTaxPct)) % 100 = 0

\* ------------------------------------------------------------ record store

\* faulty variant: a put under a stored id keeps the fields of the stored
\* record that say what it is and when it was made
PutInvoice_mergingFields(s, inv) ==
  [x \in DOMAIN s \cup {inv.id} |->
     IF x = inv.id
     THEN IF x \in DOMAIN s
          THEN [inv EXCEPT !.status = s[x].status, !.createdAt = s[x].createdAt]
          ELSE inv
     ELSE s[x]]

\* db.put('invoices', inv): the store's keyPath is 'id'
PutInvoice(s, inv) ==
  [x \in DOMAIN s \cup {inv.id} |-> IF x = inv.id THEN inv ELSE s[x]]

\* db.put('settings', value, key)
saveSetting(st, key, value) ==
  [k \in DOMAIN st \cup {key} |-> IF k = key THEN value ELSE st[k]]

\* faulty variant: the store recomputes the totals of what it is given
saveInvoice_recomputing(s, inv) ==
  PutInvoice(s, [inv EXCEPT !.updatedAt = now, !.totals = calculateInvoiceTotals(inv)])

\* saveInvoice(invoice)
saveInvoice(s, inv) == PutInvoice(s, [inv EXCEPT !.updatedAt = now])

\* faulty variant: the delete empties the store
deleteInvoiceFromDB_clearing(s, id) == << >>

\* deleteInvoice(id) of the store
deleteInvoiceFromDB(s, id) == [x \in DOMAIN s \ {id} |-> s[x]]

\* faulty variant: the sequence continues after the highest stored sequence
getNextInvoiceSequence_afterLast(s) ==
  IF DOMAIN s = {} THEN 1
  ELSE (CHOOSE n \in {s[x].number.seq : x \in DOMAIN s} :
          \A x \in DOMAIN s : s[x].number.seq <= n) + 1

\* getNextInvoiceSequence()
getNextInvoiceSequence(s) == Cardinality(DOMAIN s) + 1

\* faulty variant: the duplicate keeps the payments and the balance
duplicateInvoiceInDB_keepingPayments(original, id, s, ym) ==
  [original EXCEPT
     !.id = id,
     !.number = generateInvoiceNumber(Cardinality(DOMAIN s) + 1, ym),
     !.status = "draft",
     !.createdAt = now,
     !.updatedAt = now]

\* faulty variant: the duplicate's totals are computed from its items
duplicateInvoiceInDB_recomputing(original, id, s, ym) ==
  LET duplicate == [original EXCEPT
                      !.id = id,
                      !.number = generateInvoiceNumber(Cardinality(DOMAIN s) + 1, ym),
                      !.status = "draft",
                      !.createdAt = now,
                      !.updatedAt = now,
                      !.payments = << >>]
  IN  [duplicate EXCEPT !.totals = calculateInvoiceTotals(duplicate)]

\* the record duplicateInvoice(id) of the store builds from `original`, with
\* the id generateId() returns and the month `new Date()` falls in
duplicateInvoiceInDB(original, id, s, ym) ==
  LET nextSequence == Cardinality(DOMAIN s) + 1
  IN  [original EXCEPT
         !.id = id,
         !.number = generateInvoiceNumber(nextSequence, ym),
         !.status = "draft",
         !.createdAt = now,
         !.updatedAt = now,
         !.payments = << >>,
         !.totals = [original.totals EXCEPT
                       !.amountPaid = 0,
                       !.balanceDue = original.totals.grandTotal]]

\* ------------------------------------------------------------------ editor

\* what renderInvoiceForm puts into the form fields this model reads
FormOf(inv) ==
  [number |-> inv.number,
   status |-> inv.status,
   shipping |-> OrZero(inv.adjustments.shipping),
   globalDiscount |-> OrZero(inv.adjustments.globalDiscountPct),
   globalTax |-> OrZero(inv.adjustments.globalTaxPct)]

\* updateInvoiceFromForm() on the form contents `form`
updateInvoiceFromForm(inv, form) ==
  LET upd == [inv EXCEPT
                !.number = form.number,
                !.status = form.status,
                !.adjustments = [shipping |-> Some(form.shipping),
                                 globalDiscountPct |-> Some(form.globalDiscount),
                                 globalTaxPct |-> Some(form.globalTax)]]
  IN  [upd EXCEPT !.totals = calculateInvoiceTotals(upd)]

\* `currentInvoice.totals = calculateInvoiceTotals(currentInvoice)`
Recalculated(inv) == [inv EXCEPT !.totals = calculateInvoiceTotals(inv)]

\* "Auto-mark as paid if balance is zero" of addPayment and onPaymentChange
AutoPaid(inv) ==
  IF inv.totals.balanceDue = 0 /\ inv.totals.grandTotal > 0
  THEN [inv EXCEPT !.status = "paid"]
  ELSE inv

\* the status rule of removePayment
AutoPaidOrReopened(inv) ==
  IF inv.totals.balanceDue = 0 /\ inv.totals.grandTotal > 0
  THEN [inv EXCEPT !.status = "paid"]
  ELSE IF inv.status = "paid" /\ inv.totals.balanceDue > 0
       THEN [inv EXCEPT !.status = "sent"]
       ELSE inv

RemoveAt(seq, i) == SubSeq(seq, 1, i - 1) \o SubSeq(seq, i + 1, Len(seq))

\* ------------------------------------------------- bounded inputs of the app

\* ids a handler may be called with: every id handed out or stored
KnownIds == (1..nextId) \cup DOMAIN store

\* an id no generateId() call of the run returns (a record of another device)
ForeignId == MaxIds + 1

\* parseFloat(value) of what the user types into a line item field: a number,
\* or NaN (Unset)
LineItemInputs ==
  [quantity |-> {Some(2), Unset},
   unitPrice |-> {Some(100 * Scale)},
   discountPct |-> {Some(10), Unset},
   taxRatePct |-> {Some(20)}]

LineItemFields == {"quantity", "unitPrice", "discountPct", "taxRatePct"}

PaymentAmountInputs == {Some(100 * Scale), Unset}

FormFields == {"status", "shipping", "globalDiscount", "globalTax"}

FormInputs ==
  [status |-> {"sent", "archived"},
   shipping |-> {5 * Scale},
   globalDiscount |-> {10},
   globalTax |-> {10}]

ImportedInvoice(id, sequence, status, stale) ==
  LET inv == [id |-> id,
              number |-> generateInvoiceNumber(sequence, 0),
              status |-> status,
              createdAt |-> 0,
              updatedAt |-> 0,
              dueDate |-> 0,
              seller |-> DEFAULT_SELLER,
              client |-> DEFAULT_CLIENT,
              items |-> << [quantity |-> 1, unitPrice |-> 100 * Scale,
                            discountPct |-> Unset, taxRatePct |-> Unset] >>,
              adjustments |-> DEFAULT_ADJUSTMENTS,
              payments |-> << >>,
              notes |-> Unset,
              totals |-> DEFAULT_TOTALS]
  IN  IF stale
      THEN [inv EXCEPT !.totals = calculateInvoiceTotals(
                                    [inv EXCEPT !.items[1].unitPrice = 50 * Scale])]
      ELSE Recalculated(inv)

\* a backup of a store of this device
OwnBackup ==
  [invoices |-> << ImportedInvoice(1, 1, "sent", FALSE) >>,
   settings |-> << [key |-> "lastInvoiceId", value |-> 1] >>]

\* a document written elsewhere: the totals of its first record were not
\* computed from the record's items
ForeignDocument ==
  [invoices |-> << ImportedInvoice(1, 1, "draft", TRUE),
                   ImportedInvoice(ForeignId, 1, "sent", FALSE) >>,
   settings |-> << >>]

ImportDocuments == {OwnBackup, ForeignDocument}

\* a document whose second invoice has no id
DocumentWithoutId ==
  [invoices |-> << ImportedInvoice(ForeignId, 1, "sent", FALSE),
                   [number |-> generateInvoiceNumber(2, 0), status |-> "draft"] >>,
   settings |-> << [key |-> "theme", value |-> 1] >>]

\* a document with an invoice and two settings, `settings` not being a list of
\* key/value pairs: its second entry is a plain value
DocumentWithoutKey ==
  [invoices |-> << ImportedInvoice(ForeignId, 1, "sent", FALSE) >>,
   settings |-> << [key |-> "theme", value |-> 2], [plain |-> 1] >>]

\* a document with nothing but settings
SettingsDocument ==
  [settings |-> << [key |-> "theme", value |-> 2] >>]

StoreDocuments ==
  {OwnBackup, ForeignDocument, DocumentWithoutId, DocumentWithoutKey,
   SettingsDocument}

\* ---------------------------------------------------------------- handlers

\* the handlers are registered at the end of init(), and the single user
\* awaits a running import
Ready == currentInvoice # Null /\ importing = Null /\ steps < MaxSteps

\* the page is closed or reloaded: its variables, the calls in flight and the
\* timers that run are gone
unload ==
  /\ currentInvoice # Null
  /\ currentInvoice' = Null
  /\ importing' = Null
  /\ pending' = Null
  /\ UNCHANGED <<store, settings, nextId, yearMonth, steps, invoice, result,
                 now, call, exported, deleted>>

\* faulty variant: the blank invoice of a page load is stored at once
init_savingBlank ==
  /\ currentInvoice = Null
  /\ steps < MaxSteps
  /\ LET loaded == /\ "lastInvoiceId" \in DOMAIN settings
                   /\ settings["lastInvoiceId"] \in DOMAIN store
     IN  IF loaded
         THEN /\ currentInvoice' = store[settings["lastInvoiceId"]]
              /\ UNCHANGED <<nextId, store>>
         ELSE /\ nextId < MaxIds
              /\ currentInvoice' =
                   createBlankInvoice(nextId + 1, getNextInvoiceSequence(store),
                                      yearMonth)
              /\ store' = saveInvoice(store, currentInvoice')
              /\ nextId' = nextId + 1
  /\ steps' = steps + 1
  /\ UNCHANGED <<settings, yearMonth, importing, invoice, result, now,
                 call, exported, pending, deleted>>

\* init(), once the page is loaded (`let currentInvoice = null`)
init ==
  /\ currentInvoice = Null
  /\ steps < MaxSteps
  /\ LET loaded == /\ "lastInvoiceId" \in DOMAIN settings
                   /\ settings["lastInvoiceId"] \in DOMAIN store
     IN  IF loaded
         THEN /\ currentInvoice' = store[settings["lastInvoiceId"]]
              /\ nextId' = nextId
         ELSE /\ nextId < MaxIds
              /\ currentInvoice' =
                   createBlankInvoice(nextId + 1, getNextInvoiceSequence(store),
                                      yearMonth)
              /\ nextId' = nextId + 1
  /\ steps' = steps + 1
  /\ UNCHANGED <<store, settings, yearMonth, importing, invoice, result, now,
                 call, exported, pending, deleted>>

\* createNewInvoice()
createNewInvoice ==
  /\ Ready
  /\ nextId < MaxIds
  /\ currentInvoice' =
       createBlankInvoice(nextId + 1, getNextInvoiceSequence(store), yearMonth)
  /\ nextId' = nextId + 1
  /\ steps' = steps + 1
  /\ UNCHANGED <<store, settings, yearMonth, importing, invoice, result, now, call, exported, pending, deleted>>

\* saveCurrentInvoice()
saveCurrentInvoice ==
  /\ Ready
  /\ LET inv == updateInvoiceFromForm(currentInvoice, FormOf(currentInvoice))
     IN  /\ store' = saveInvoice(store, inv)
         /\ currentInvoice' = store'[inv.id]
         /\ settings' = saveSetting(settings, "lastInvoiceId", inv.id)
  /\ steps' = steps + 1
  /\ UNCHANGED <<nextId, yearMonth, importing, invoice, result, now, call, exported, pending, deleted>>

\* duplicateCurrentInvoice()
duplicateCurrentInvoice ==
  /\ Ready
  /\ nextId < MaxIds
  /\ LET saved      == saveInvoice(store, currentInvoice)
         duplicated == duplicateInvoiceInDB(saved[currentInvoice.id], nextId + 1,
                                            saved, yearMonth)
     IN  /\ store' = PutInvoice(saved, duplicated)
         /\ currentInvoice' = duplicated
  /\ nextId' = nextId + 1
  /\ steps' = steps + 1
  /\ UNCHANGED <<settings, yearMonth, importing, invoice, result, now, call, exported, pending, deleted>>

\* downloadPDF()
downloadPDF ==
  /\ Ready
  /\ LET inv == updateInvoiceFromForm(currentInvoice, FormOf(currentInvoice))
     IN  IF inv.status = "draft"
         THEN /\ store' = saveInvoice(store, [inv EXCEPT !.status = "sent"])
              /\ currentInvoice' = store'[inv.id]
         ELSE /\ currentInvoice' = inv
              /\ store' = store
  /\ steps' = steps + 1
  /\ UNCHANGED <<settings, nextId, yearMonth, importing, invoice, result, now, call, exported, pending, deleted>>

\* printCurrentInvoice()
printCurrentInvoice ==
  /\ Ready
  /\ currentInvoice' = updateInvoiceFromForm(currentInvoice, FormOf(currentInvoice))
  /\ steps' = steps + 1
  /\ UNCHANGED <<store, settings, nextId, yearMonth, importing, invoice, result, now, call, exported, pending, deleted>>

\* onInvoiceSelectChange(event) with an invoice chosen
onInvoiceSelectChange(id) ==
  /\ Ready
  /\ IF id \in DOMAIN store
     THEN /\ currentInvoice' = store[id]
          /\ settings' = saveSetting(settings, "lastInvoiceId", id)
     ELSE UNCHANGED <<currentInvoice, settings>>
  /\ steps' = steps + 1
  /\ UNCHANGED <<store, nextId, yearMonth, importing, invoice, result, now, call, exported, pending, deleted>>

\* editInvoice(id)
editInvoice(id) ==
  /\ Ready
  /\ currentInvoice' = IF id \in DOMAIN store THEN store[id] ELSE currentInvoice
  /\ steps' = steps + 1
  /\ UNCHANGED <<store, settings, nextId, yearMonth, importing, invoice, result, now, call, exported, pending, deleted>>

\* duplicateInvoice(id) of the history view
duplicateInvoice(id) ==
  /\ Ready
  /\ IF id \in DOMAIN store
     THEN /\ nextId < MaxIds
          /\ store' = PutInvoice(store,
                        duplicateInvoiceInDB(store[id], nextId + 1, store, yearMonth))
          /\ nextId' = nextId + 1
     ELSE UNCHANGED <<store, nextId>>
  /\ steps' = steps + 1
  /\ UNCHANGED <<settings, currentInvoice, yearMonth, importing, invoice, result, now, call, exported, pending, deleted>>

\* markInvoiceAsPaid(id); the card shows the button when balanceDue > 0
markInvoiceAsPaid(id) ==
  /\ Ready
  /\ IF id \in DOMAIN store
     THEN /\ store[id].totals.balanceDue > 0
          /\ Len(store[id].payments) < MaxStoredPayments
          /\ LET paid == [store[id] EXCEPT
                            !.payments = Append(@, [amount |-> store[id].totals.balanceDue])]
             IN  store' = saveInvoice(store, [Recalculated(paid) EXCEPT !.status = "paid"])
     ELSE store' = store
  /\ steps' = steps + 1
  /\ UNCHANGED <<settings, currentInvoice, nextId, yearMonth, importing,
                 invoice, result, now, call, exported, pending, deleted>>

\* deleteInvoice(id) of the history view, confirmed
deleteInvoice(id) ==
  /\ Ready
  /\ store' = deleteInvoiceFromDB(store, id)
  /\ deleted' = deleted \cup ({id} \cap DOMAIN store)
  /\ steps' = steps + 1
  /\ UNCHANGED <<settings, currentInvoice, nextId, yearMonth, importing,
                 invoice, result, now, call, exported, pending>>

\* ----------------------------------------------------------- editor edits

EditFrame == UNCHANGED <<store, settings, nextId, yearMonth, importing, invoice, result, now, call, exported, pending, deleted>>


\* addLineItem()
addLineItem ==
  /\ Ready
  /\ Len(currentInvoice.items) < MaxEditorItems
  /\ currentInvoice' =
       [currentInvoice EXCEPT
          !.items = Append(@, [quantity |-> 1, unitPrice |-> 0,
                               discountPct |-> Unset, taxRatePct |-> Unset])]
  /\ steps' = steps + 1
  /\ EditFrame

\* what onLineItemChange(index, field, value) makes of the invoice `inv`,
\* value parsed to `parsed`: nothing when `inv` has no item `index`
LineItemChanged(inv, index, field, parsed) ==
  IF index \notin 1..Len(inv.items) THEN inv
  ELSE LET item == inv.items[index]
           changed ==
             CASE field = "quantity"    -> [item EXCEPT !.quantity = OrZero(parsed)]
               [] field = "unitPrice"   -> [item EXCEPT !.unitPrice = OrZero(parsed)]
               [] field = "discountPct" ->
                    [item EXCEPT !.discountPct = IF Truthy(parsed) THEN parsed ELSE Unset]
               [] field = "taxRatePct"  ->
                    [item EXCEPT !.taxRatePct = IF Truthy(parsed) THEN parsed ELSE Unset]
       IN  Recalculated([inv EXCEPT !.items[index] = changed])

\* onLineItemChange(index, field, value) on a row of the invoice in the editor
onLineItemChange(index, field, parsed) ==
  /\ Ready
  /\ index \in 1..Len(currentInvoice.items)
  /\ currentInvoice' = LineItemChanged(currentInvoice, index, field, parsed)
  /\ steps' = steps + 1
  /\ EditFrame

\* removeLineItem(index)
removeLineItem(index) ==
  /\ Ready
  /\ index \in 1..Len(currentInvoice.items)
  /\ currentInvoice' =
       Recalculated([currentInvoice EXCEPT !.items = RemoveAt(@, index)])
  /\ steps' = steps + 1
  /\ EditFrame

\* addPayment()
addPayment ==
  /\ Ready
  /\ Len(currentInvoice.payments) < MaxStoredPayments
  /\ currentInvoice' =
       AutoPaid(Recalculated([currentInvoice EXCEPT
                                !.payments = Append(@, [amount |-> 0])]))
  /\ steps' = steps + 1
  /\ EditFrame

\* what onPaymentChange(index, 'amount', value) makes of the invoice `inv`,
\* value parsed to `parsed`: nothing when `inv` has no payment `index`
PaymentChanged(inv, index, parsed) ==
  IF index \notin 1..Len(inv.payments) THEN inv
  ELSE AutoPaid(Recalculated([inv EXCEPT
                                !.payments[index].amount = OrZero(parsed)]))

\* onPaymentChange(index, 'amount', value) on a row of the invoice in the editor
onPaymentChange(index, parsed) ==
  /\ Ready
  /\ index \in 1..Len(currentInvoice.payments)
  /\ currentInvoice' = PaymentChanged(currentInvoice, index, parsed)
  /\ steps' = steps + 1
  /\ EditFrame

\* removePayment(index)
removePayment(index) ==
  /\ Ready
  /\ index \in 1..Len(currentInvoice.payments)
  /\ currentInvoice' =
       AutoPaidOrReopened(Recalculated([currentInvoice EXCEPT
                                          !.payments = RemoveAt(@, index)]))
  /\ steps' = steps + 1
  /\ EditFrame

\* the frame of the steps that start or end a timer
TimerFrame ==
  UNCHANGED <<store, settings, nextId, yearMonth, importing, invoice, result,
              now, call, exported, deleted>>

\* 'input' on a field of line item row `index`: debounce(...) starts the
\* timer of that field.  The timer keeps index, field and the input element;
\* `entered`, the invoice the row was rendered for, is kept for the record.
\* One timer runs at a time.
onLineItemInput(index, field, parsed) ==
  /\ Ready
  /\ pending = Null
  /\ index \in 1..Len(currentInvoice.items)
  /\ pending' = [handler |-> "onLineItemChange", index |-> index, field |-> field,
                 value |-> parsed, entered |-> currentInvoice.id]
  /\ steps' = steps + 1
  /\ UNCHANGED currentInvoice
  /\ TimerFrame

\* 'input' on the amount of payment row `index`
onPaymentInput(index, parsed) ==
  /\ Ready
  /\ pending = Null
  /\ index \in 1..Len(currentInvoice.payments)
  /\ pending' = [handler |-> "onPaymentChange", index |-> index, field |-> "amount",
                 value |-> parsed, entered |-> currentInvoice.id]
  /\ steps' = steps + 1
  /\ UNCHANGED currentInvoice
  /\ TimerFrame

\* 300 ms after the input: the timer of debounce() calls the handler, which
\* reads `currentInvoice` then
debounceFires ==
  /\ pending # Null
  /\ currentInvoice # Null
  /\ currentInvoice' =
       IF pending.handler = "onLineItemChange"
       THEN LineItemChanged(currentInvoice, pending.index, pending.field, pending.value)
       ELSE PaymentChanged(currentInvoice, pending.index, pending.value)
  /\ pending' = Null
  /\ UNCHANGED steps
  /\ TimerFrame

\* the debounced 'input' listener of the form: the user has changed one field
onFormInput(field, value) ==
  /\ Ready
  /\ currentInvoice' =
       updateInvoiceFromForm(currentInvoice,
                             [FormOf(currentInvoice) EXCEPT ![field] = value])
  /\ steps' = steps + 1
  /\ EditFrame

\* ------------------------------------------------------------------ import

ImportFrame == UNCHANGED <<currentInvoice, nextId, yearMonth, invoice, result, now, exported, pending, deleted>>

\* JSON.parse(jsonData) throws on this document
Unparseable == [unparseable |-> TRUE]

\* the record has the property the store takes its key from
HasId(record) == "id" \in DOMAIN record

\* the entry of data.settings has a `key` property
HasKey(setting) == "key" \in DOMAIN setting

\* faulty variant: the invoices are never cleared
clearedInvoices_never(s, merge) == s

\* importData: `await tx.objectStore('invoices').clear()` unless merging
clearedInvoices(s, merge) == IF merge THEN s ELSE << >>

\* faulty variant: the settings are never cleared
clearedSettings_never(st, merge) == st

\* importData: `await tx.objectStore('settings').clear()` unless merging
clearedSettings(st, merge) == IF merge THEN st ELSE << >>

\* importData(jsonData, merge) up to its first put: parse, and unless merging
\* clear both stores in one transaction.  `before` remembers what the stores
\* held when the call was made.
importBegin(data, merge) ==
  /\ importing = Null
  /\ steps < MaxSteps
  /\ IF data = Unparseable
     THEN /\ call' = [op |-> "importData", data |-> data, merge |-> merge,
                      outcome |-> "failed", value |-> 0]
          /\ UNCHANGED <<store, settings, importing>>
     ELSE /\ importing' =
               [data |-> data, merge |-> merge,
                before |-> [invoices |-> store, settings |-> settings],
                count |-> IF "invoices" \in DOMAIN data THEN Len(data.invoices) ELSE 0,
                invoices |-> IF "invoices" \in DOMAIN data THEN data.invoices ELSE << >>,
                settings |-> IF "settings" \in DOMAIN data THEN data.settings ELSE << >>]
          /\ store' = clearedInvoices(store, merge)
          /\ settings' = clearedSettings(settings, merge)
          /\ call' = [op |-> "importData", data |-> data, merge |-> merge,
                      outcome |-> "pending", value |-> 0]
  /\ steps' = steps + 1
  /\ ImportFrame

\* importAllData(): the file the user picks replaces the stores
importAllData(data) ==
  /\ Ready
  /\ importBegin(data, FALSE)

\* importData: `await db.put('invoices', invoice)` of the next invoice
importInvoice ==
  /\ importing # Null
  /\ importing.invoices # << >>
  /\ HasId(Head(importing.invoices))
  /\ store' = PutInvoice(store, Head(importing.invoices))
  /\ importing' = [importing EXCEPT !.invoices = Tail(@)]
  /\ UNCHANGED <<settings, steps, call>>
  /\ ImportFrame

\* importData: `await db.put('settings', setting.value, setting.key)`
importSetting ==
  /\ importing # Null
  /\ importing.invoices = << >>
  /\ importing.settings # << >>
  /\ HasKey(Head(importing.settings))
  /\ settings' = saveSetting(settings, Head(importing.settings).key,
                             Head(importing.settings).value)
  /\ importing' = [importing EXCEPT !.settings = Tail(@)]
  /\ UNCHANGED <<store, steps, call>>
  /\ ImportFrame

\* importData returns invoices.length
importDone ==
  /\ importing # Null
  /\ importing.invoices = << >>
  /\ importing.settings = << >>
  /\ importing' = Null
  /\ call' = [call EXCEPT !.outcome = "returned", !.value = importing.count]
  /\ UNCHANGED <<store, settings, steps>>
  /\ ImportFrame

\* importData: the put of the next record throws (the record has no id, the
\* setting no key); the call rejects, what was written stays written
importThrows ==
  /\ importing # Null
  /\ \/ importing.invoices # << >> /\ ~HasId(Head(importing.invoices))
     \/ /\ importing.invoices = << >>
        /\ importing.settings # << >>
        /\ ~HasKey(Head(importing.settings))
  /\ importing' = Null
  /\ call' = [call EXCEPT !.outcome = "failed"]
  /\ UNCHANGED <<store, settings, steps>>
  /\ ImportFrame

\* importData: a put rejects because the storage medium fails, or the page is
\* closed while the call runs; what was written stays written
importInterrupted ==
  /\ importing # Null
  /\ importing.invoices # << >> \/ importing.settings # << >>
  /\ importing' = Null
  /\ call' = [call EXCEPT !.outcome = "interrupted"]
  /\ UNCHANGED <<store, settings, steps>>
  /\ ImportFrame

\* ------------------------------------------------- the store's API, called

\* faulty variant: a missing id yields some stored record
getInvoice_orAnother(s, id) ==
  IF id \in DOMAIN s THEN s[id]
  ELSE IF DOMAIN s = {} THEN Null
       ELSE s[CHOOSE x \in DOMAIN s : TRUE]

\* getInvoice(id): the record, or undefined
getInvoice(s, id) == IF id \in DOMAIN s THEN s[id] ELSE Null

\* db.getAll('invoices'): the records in key order
RECURSIVE getAllInvoices(_)
getAllInvoices(s) ==
  IF DOMAIN s = {} THEN << >>
  ELSE LET first == CHOOSE x \in DOMAIN s : \A y \in DOMAIN s : x <= y
       IN  << s[first] >> \o getAllInvoices([x \in DOMAIN s \ {first} |-> s[x]])

\* the keys the app writes settings under, in key order
SettingKeys == << "lastInvoiceId", "theme" >>

\* db.getAll('settings'): the values in key order, without their keys
RECURSIVE getAllSettingValues(_, _)
getAllSettingValues(st, keys) ==
  IF keys = << >> THEN << >>
  ELSE (IF Head(keys) \in DOMAIN st THEN << [plain |-> st[Head(keys)]] >> ELSE << >>)
       \o getAllSettingValues(st, Tail(keys))

\* exportData(): the document behind the JSON text it returns
exportData(s, st) ==
  [invoices |-> getAllInvoices(s),
   settings |-> getAllSettingValues(st, SettingKeys)]

\* one caller, who awaits each call before making the next
Idle == importing = Null /\ steps < MaxCalls

StoreFrame == UNCHANGED <<currentInvoice, yearMonth, importing, invoice, result, now>>

\* the invoices a caller hands to saveInvoice: made around a blank invoice
\* (createBlankInvoice) or read from the store before
CallerInvoices(id) ==
  { ImportedInvoice(id, 1, "draft", FALSE),
    ImportedInvoice(id, 2, "sent", TRUE),
    [Recalculated([ImportedInvoice(id, 1, "sent", FALSE) EXCEPT
                     !.payments = << [amount |-> 100 * Scale] >>])
       EXCEPT !.status = "paid"] }

\* saveInvoice(invoice) with an invoice whose id generateId() has returned
\* before (id <= nextId) or returns now
callSaveInvoice(inv) ==
  /\ Idle
  /\ inv.id <= nextId + 1
  /\ inv.id <= MaxIds
  /\ nextId' = IF inv.id = nextId + 1 THEN nextId + 1 ELSE nextId
  /\ store' = saveInvoice(store, inv)
  /\ call' = [op |-> "saveInvoice", invoice |-> inv, outcome |-> "returned"]
  /\ steps' = steps + 1
  /\ UNCHANGED <<settings, exported, pending, deleted>>
  /\ StoreFrame

\* getInvoice(id)
callGetInvoice(id) ==
  /\ Idle
  /\ call' = [op |-> "getInvoice", id |-> id, outcome |-> "returned",
              value |-> getInvoice(store, id)]
  /\ steps' = steps + 1
  /\ UNCHANGED <<store, settings, nextId, exported, pending, deleted>>
  /\ StoreFrame

\* deleteInvoice(id)
callDeleteInvoice(id) ==
  /\ Idle
  /\ store' = deleteInvoiceFromDB(store, id)
  /\ call' = [op |-> "deleteInvoice", id |-> id, outcome |-> "returned"]
  /\ steps' = steps + 1
  /\ UNCHANGED <<settings, nextId, exported, pending, deleted>>
  /\ StoreFrame

\* duplicateInvoice(id)
callDuplicateInvoice(id) ==
  /\ Idle
  /\ IF getInvoice(store, id) = Null
     THEN /\ call' = [op |-> "duplicateInvoice", id |-> id, outcome |-> "returned",
                      value |-> Null]
          /\ UNCHANGED <<store, nextId>>
     ELSE /\ nextId < MaxIds
          /\ LET original == getInvoice(store, id)
                 duplicate == duplicateInvoiceInDB(original, nextId + 1, store, yearMonth)
             IN  /\ store' = PutInvoice(store, duplicate)
                 /\ call' = [op |-> "duplicateInvoice", id |-> id,
                             outcome |-> "returned", value |-> duplicate]
          /\ nextId' = nextId + 1
  /\ steps' = steps + 1
  /\ UNCHANGED <<settings, exported, pending, deleted>>
  /\ StoreFrame

\* saveSetting(key, value)
callSaveSetting(key, value) ==
  /\ Idle
  /\ settings' = saveSetting(settings, key, value)
  /\ call' = [op |-> "saveSetting", key |-> key, outcome |-> "returned"]
  /\ steps' = steps + 1
  /\ UNCHANGED <<store, nextId, exported, pending, deleted>>
  /\ StoreFrame

\* exportData(); `exported` keeps the document and what the stores held
callExportData ==
  /\ Idle
  /\ exported' = [document |-> exportData(store, settings),
                  invoices |-> store, settings |-> settings]
  /\ call' = [op |-> "exportData", outcome |-> "returned"]
  /\ steps' = steps + 1
  /\ UNCHANGED <<store, settings, nextId, pending, deleted>>
  /\ StoreFrame

\* the ids in a document were returned by generateId() before, on this device
\* (id <= nextId) or on another one
IdsOf(data) ==
  IF "invoices" \in DOMAIN data
  THEN {data.invoices[i].id : i \in {j \in 1..Len(data.invoices) : HasId(data.invoices[j])}}
  ELSE {}

\* importData(jsonData, merge)
callImportData(data, merge) ==
  /\ Idle
  /\ \A id \in IdsOf(data) : id <= nextId \/ id > MaxIds
  /\ importBegin(data, merge)

\* time passes
Tick ==
  /\ now < MaxNow
  /\ now' = now + 1
  /\ UNCHANGED <<store, settings, currentInvoice, nextId, yearMonth, importing,
                 steps, invoice, result, call, exported, pending, deleted>>

\* the calendar month of `new Date()` changes
MonthPasses ==
  /\ yearMonth < MaxMonth
  /\ yearMonth' = yearMonth + 1
  /\ UNCHANGED <<store, settings, currentInvoice, nextId, importing, steps,
                 invoice, result, now, call, exported, pending, deleted>>

\* ------------------------------------------------------------ query layer

\* String.prototype.toLowerCase(), on the letters this model writes
LowerCaseOf ==
  [c \in {"A", "B", "C", "I", "N", "O", "V"} |->
     CASE c = "A" -> "a" [] c = "B" -> "b" [] c = "C" -> "c" [] c = "I" -> "i"
       [] c = "N" -> "n" [] c = "O" -> "o" [] c = "V" -> "v"]

toLowerCase(text) ==
  [i \in 1..Len(text) |->
     IF text[i] \in DOMAIN LowerCaseOf THEN LowerCaseOf[text[i]] ELSE text[i]]

\* String.prototype.includes(): `query` occurs in `text` as a substring
includes(text, query) ==
  \E i \in 1..(Len(text) - Len(query) + 1) :
    SubSeq(text, i, i + Len(query) - 1) = query

\* String(n), for n >= 0
RECURSIVE DecimalText(_)
DecimalText(n) ==
  LET digit == <<"0", "1", "2", "3", "4", "5", "6", "7", "8", "9">>[(n % 10) + 1]
  IN  IF n < 10 THEN <<digit>> ELSE Append(DecimalText(n \div 10), digit)

\* String.prototype.padStart(length, '0')
RECURSIVE padStart(_, _)
padStart(text, length) ==
  IF Len(text) >= length THEN text ELSE padStart(<<"0">> \o text, length)

\* the text of an invoice number: `INV-${year}${month}-${sequence}`, the
\* months of this model counted from January 2024
NumberText(number) ==
  <<"I", "N", "V", "-">>
    \o DecimalText(2024 + (number.ym \div 12))
    \o padStart(DecimalText((number.ym % 12) + 1), 2)
    \o <<"-">>
    \o padStart(DecimalText(number.seq), 4)

\* Array.prototype.sort((a, b) => key(b) - key(a)), keys[i] the key of
\* seq[i]: descending by key, and stable, so elements of equal key keep their
\* order
StableSortDescending(seq, keys) ==
  LET n == Len(seq)
      position(i) ==
        1 + Cardinality({j \in 1..n :
                           \/ keys[j] > keys[i]
                           \/ keys[j] = keys[i] /\ j < i})
  IN  [p \in 1..n |-> seq[CHOOSE i \in 1..n : position(i) = p]]

\* faulty variant: the search compares the texts as they are written
matchesSearch_caseSensitive(inv, searchQuery) ==
  \/ includes(NumberText(inv.number), searchQuery)
  \/ includes(inv.client.name, searchQuery)
  \/ includes(inv.seller.name, searchQuery)
  \/ inv.notes # Unset /\ inv.notes[1] # << >> /\ includes(inv.notes[1], searchQuery)

\* the search of getFilteredInvoices: the lower-cased query occurs in the
\* number, the client's name, the seller's name or the (non-empty) notes
matchesSearch(inv, searchQuery) ==
  LET query == toLowerCase(searchQuery)
  IN  \/ includes(toLowerCase(NumberText(inv.number)), query)
      \/ includes(toLowerCase(inv.client.name), query)
      \/ includes(toLowerCase(inv.seller.name), query)
      \/ /\ inv.notes # Unset
         /\ inv.notes[1] # << >>
         /\ includes(toLowerCase(inv.notes[1]), query)

\* the four filters of getFilteredInvoices, applied to db.getAll('invoices')
\* one after the other: a criterion that is absent (or an empty status list,
\* or an empty text) is skipped; createdAt and the two dates are ISO texts of
\* one format, so their order as texts is their order in time
filterInvoices(s, filter) ==
  LET byStatus == IF filter.status # Unset /\ Len(filter.status[1]) > 0
                  THEN SelectSeq(getAllInvoices(s), LAMBDA inv :
                         \E i \in 1..Len(filter.status[1]) :
                           filter.status[1][i] = inv.status)
                  ELSE getAllInvoices(s)
      byFrom == IF filter.dateFrom # Unset
                THEN SelectSeq(byStatus, LAMBDA inv :
                       inv.createdAt >= filter.dateFrom[1])
                ELSE byStatus
      byTo == IF filter.dateTo # Unset
              THEN SelectSeq(byFrom, LAMBDA inv :
                     inv.createdAt <= filter.dateTo[1])
              ELSE byFrom
  IN  IF filter.searchQuery # Unset /\ filter.searchQuery[1] # << >>
      THEN SelectSeq(byTo, LAMBDA inv :
             matchesSearch(inv, filter.searchQuery[1]))
      ELSE byTo

\* faulty variant: the result is left in the order of the store's keys
getFilteredInvoices_unsorted(s, filter) == filterInvoices(s, filter)

\* getFilteredInvoices(filter): the filtered invoices, newest first
getFilteredInvoices(s, filter) ==
  LET invoices == filterInvoices(s, filter)
  IN  StableSortDescending(invoices,
                           [i \in DOMAIN invoices |-> invoices[i].createdAt])

\* faulty variant: a status no invoice has is left out of byStatus
getInvoiceSummary_sparse(s) ==
  LET invoices == getAllInvoices(s)
  IN  [totalInvoices |-> Len(invoices),
       byStatus |-> [st \in {invoices[i].status : i \in 1..Len(invoices)} |->
                       Cardinality({i \in 1..Len(invoices) :
                                      invoices[i].status = st})]]

\* getInvoiceSummary(): the count of the stored invoices and, from zero for
\* each of the five statuses, the count per status; `++` on the key of any
\* other status makes it NaN (the three sums of amounts are not modelled)
getInvoiceSummary(s) ==
  LET invoices == getAllInvoices(s)
  IN  [totalInvoices |-> Len(invoices),
       byStatus |-> [st \in InvoiceStatus
                           \cup {invoices[i].status : i \in 1..Len(invoices)} |->
                       IF st \in InvoiceStatus
                       THEN Cardinality({i \in 1..Len(invoices) :
                                           invoices[i].status = st})
                       ELSE "NaN"]]

\* faulty variant: an invoice due today counts as one day overdue
ageBucket_dueToday(daysOverdue) ==
  IF daysOverdue > 90 THEN "90+ days"
  ELSE IF daysOverdue > 60 THEN "61-90 days"
  ELSE IF daysOverdue > 30 THEN "31-60 days"
  ELSE IF daysOverdue >= 0 THEN "1-30 days"
  ELSE "Current"

\* the age bucket of renderAgingReport
ageBucket(daysOverdue) ==
  IF daysOverdue > 90 THEN "90+ days"
  ELSE IF daysOverdue > 60 THEN "61-90 days"
  ELSE IF daysOverdue > 30 THEN "31-60 days"
  ELSE IF daysOverdue > 0 THEN "1-30 days"
  ELSE "Current"

\* Math.floor(a / b), for b > 0
FloorDiv(a, b) == IF a >= 0 THEN a \div b ELSE -((-a + b - 1) \div b)

RECURSIVE SumBalances(_)
SumBalances(rows) ==
  IF rows = << >> THEN 0
  ELSE rows[1].invoice.totals.balanceDue + SumBalances(Tail(rows))

\* renderAgingReport(invoices) at the instant `today`: the rows of the table
\* and its total, or no table when nothing is outstanding
renderAgingReport(invoices, today) ==
  LET unpaidInvoices == SelectSeq(invoices, LAMBDA inv : inv.totals.balanceDue > 0)
      agingData ==
        [i \in 1..Len(unpaidInvoices) |->
           LET daysOverdue == FloorDiv(today - unpaidInvoices[i].dueDate * TicksPerDay,
                                       TicksPerDay)
           IN  [invoice |-> unpaidInvoices[i],
                daysOverdue |-> daysOverdue,
                ageBucket |-> ageBucket(daysOverdue)]]
      rows == StableSortDescending(agingData,
                [i \in DOMAIN agingData |-> agingData[i].daysOverdue])
  IN  IF unpaidInvoices = << >>
      THEN [rows |-> << >>]
      ELSE [rows |-> rows, total |-> SumBalances(rows)]

\* the texts of the stored invoices and of the searches
Acme == <<"A", "c", "m", "e">>

Bolt == <<"B", "O", "l", "t">>

\* invoices of every status, age and balance, as the editor saves them:
\* [status, createdAt, dueDate, client, seller, notes, price, paid]
QuerySamples ==
  << <<"draft", 0, 70, << >>, << >>, Unset, 100, 0>>,
     <<"sent", 1, 100, Acme, << >>, Unset, 100, 0>>,
     <<"sent", 2, 101, << >>, Acme, Some(<< >>), 100, 0>>,
     <<"overdue", 0, 0, Bolt, << >>, Some(Acme), 100, 50>>,
     <<"paid", 1, 40, Acme, Bolt, Unset, 100, 100>>,
     <<"archived", 2, 10, Bolt, << >>, Unset, 100, 0>>,
     <<"overdue", 2, 40, << >>, Bolt, Unset, 100, 0>> >>

QueryInvoice(id, k) ==
  LET sample == QuerySamples[k]
  IN  Recalculated(
        [createBlankInvoice(id, id, 0) EXCEPT
           !.status = sample[1],
           !.createdAt = sample[2],
           !.updatedAt = sample[2],
           !.dueDate = sample[3],
           !.client = [name |-> sample[4]],
           !.seller = [name |-> sample[5]],
           !.notes = sample[6],
           !.items = IF sample[7] = 0 THEN << >>
                     ELSE << [quantity |-> 1, unitPrice |-> sample[7] * Scale,
                              discountPct |-> Unset, taxRatePct |-> Unset] >>,
           !.payments = IF sample[8] = 0 THEN << >>
                        ELSE << [amount |-> sample[8] * Scale] >>])

\* the stores the queries are asked of: any of the ids, each with any sample
QueryStores ==
  UNION { [ids -> 1..Len(QuerySamples)] : ids \in SUBSET (1..MaxIds) }

\* the criteria of a filter, each of them optional
InvoiceFilters ==
  [status : {Unset, Some(<< >>), Some(<<"paid">>), Some(<<"sent", "overdue">>)},
   dateFrom : {Unset, Some(1)},
   dateTo : {Unset, Some(1)},
   searchQuery : {Unset, Some(<< >>), Some(<<"a", "C">>), Some(<<"b", "o", "l">>),
                  Some(<<"-", "0", "0", "0", "2">>)}]

\* the day the reports are asked for
QueryDay == 100

QueryFrame ==
  UNCHANGED <<store, settings, currentInvoice, nextId, yearMonth, importing,
              invoice, result, now, exported, pending, deleted>>

\* const invoices = await getFilteredInvoices(filter)
callGetFilteredInvoices(filter) ==
  /\ call = Null
  /\ call' = [op |-> "getFilteredInvoices", filter |-> filter,
              outcome |-> "returned", value |-> getFilteredInvoices(store, filter)]
  /\ steps' = steps + 1
  /\ QueryFrame

\* const summary = await getInvoiceSummary()
callGetInvoiceSummary ==
  /\ call = Null
  /\ call' = [op |-> "getInvoiceSummary", outcome |-> "returned",
              value |-> getInvoiceSummary(store)]
  /\ steps' = steps + 1
  /\ QueryFrame

\* renderAnalytics(): renderAgingReport(await getAllInvoices())
renderAnalytics ==
  /\ call = Null
  /\ call' = [op |-> "renderAgingReport", outcome |-> "returned",
              value |-> renderAgingReport(getAllInvoices(store), now)]
  /\ steps' = steps + 1
  /\ QueryFrame

\* -------------------------------------------------------- specifications

\* first visit: empty database, init() not yet run
Init ==
  /\ store = << >>
  /\ settings = << >>
  /\ currentInvoice = Null
  /\ nextId = 0
  /\ yearMonth = 0
  /\ importing = Null
  /\ steps = 0
  /\ invoice = Null
  /\ result = Null
  /\ now = 0
  /\ call = Null
  /\ exported = Null
  /\ pending = Null
  /\ deleted = {}

Next ==
  \/ unload
  \/ init
  \/ createNewInvoice
  \/ saveCurrentInvoice
  \/ duplicateCurrentInvoice
  \/ downloadPDF
  \/ printCurrentInvoice
  \/ \E id \in KnownIds : onInvoiceSelectChange(id)
  \/ \E id \in KnownIds : editInvoice(id)
  \/ \E id \in KnownIds : duplicateInvoice(id)
  \/ \E id \in KnownIds : markInvoiceAsPaid(id)
  \/ \E id \in KnownIds : deleteInvoice(id)
  \/ addLineItem
  \/ \E i \in 1..MaxEditorItems, f \in LineItemFields :
       \E v \in LineItemInputs[f] : onLineItemChange(i, f, v)
  \/ \E i \in 1..MaxEditorItems : removeLineItem(i)
  \/ addPayment
  \/ \E i \in 1..MaxStoredPayments, v \in PaymentAmountInputs : onPaymentChange(i, v)
  \/ \E i \in 1..MaxStoredPayments : removePayment(i)
  \/ \E f \in FormFields : \E v \in FormInputs[f] : onFormInput(f, v)
  \/ \E d \in ImportDocuments : importAllData(d)
  \/ importInvoice
  \/ importSetting
  \/ importDone
  \/ MonthPasses

Spec == Init /\ [][Next]_vars

\* the store under creation, saving, duplication and deletion alone
NextNumbering ==
  \/ unload
  \/ init
  \/ createNewInvoice
  \/ saveCurrentInvoice
  \/ duplicateCurrentInvoice
  \/ \E id \in KnownIds : duplicateInvoice(id)
  \/ \E id \in KnownIds : deleteInvoice(id)
  \/ MonthPasses

SpecNumbering == Init /\ [][NextNumbering]_vars

\* the store's API under a caller that makes one call after the other
NextStore ==
  \/ \E id \in 1..MaxIds : \E inv \in CallerInvoices(id) : callSaveInvoice(inv)
  \/ \E id \in KnownIds \cup {nextId + 1} : callGetInvoice(id)
  \/ \E id \in KnownIds \cup {nextId + 1} : callDeleteInvoice(id)
  \/ \E id \in KnownIds \cup {nextId + 1} : callDuplicateInvoice(id)
  \/ \E value \in 1..2 : callSaveSetting("theme", value)
  \/ \E id \in KnownIds : callSaveSetting("lastInvoiceId", id)
  \/ callExportData
  \/ \E merge \in BOOLEAN :
       \E data \in StoreDocuments \cup {Unparseable}
                   \cup (IF exported = Null THEN {} ELSE {exported.document}) :
         callImportData(data, merge)
  \/ importInvoice
  \/ importSetting
  \/ importDone
  \/ importThrows
  \/ importInterrupted
  \/ Tick

SpecStore == Init /\ [][NextStore]_vars

\* one invoice in the editor: its line items, its payments and its form
NextEditor ==
  \/ unload
  \/ init
  \/ addLineItem
  \/ \E i \in 1..MaxEditorItems, f \in LineItemFields :
       \E v \in LineItemInputs[f] : onLineItemChange(i, f, v)
  \/ \E i \in 1..MaxEditorItems : removeLineItem(i)
  \/ addPayment
  \/ \E i \in 1..MaxStoredPayments, v \in PaymentAmountInputs : onPaymentChange(i, v)
  \/ \E i \in 1..MaxStoredPayments : removePayment(i)
  \/ \E f \in FormFields : \E v \in FormInputs[f] : onFormInput(f, v)

SpecEditor == Init /\ [][NextEditor]_vars

\* page loads, between the handlers that store, remove and replace invoices
\* and set "lastInvoiceId"
NextStartup ==
  \/ unload
  \/ init
  \/ createNewInvoice
  \/ saveCurrentInvoice
  \/ \E id \in KnownIds : onInvoiceSelectChange(id)
  \/ \E id \in KnownIds : deleteInvoice(id)
  \/ \E d \in ImportDocuments : importAllData(d)
  \/ importInvoice
  \/ importSetting
  \/ importDone

SpecStartup == Init /\ [][NextStartup]_vars

\* the editor with its debounce timers, while the user moves between invoices
NextDebounce ==
  \/ unload
  \/ init
  \/ createNewInvoice
  \/ saveCurrentInvoice
  \/ duplicateCurrentInvoice
  \/ \E id \in KnownIds : onInvoiceSelectChange(id)
  \/ \E id \in KnownIds : editInvoice(id)
  \/ addLineItem
  \/ addPayment
  \/ \E i \in 1..MaxEditorItems, f \in LineItemFields :
       \E v \in LineItemInputs[f] : onLineItemInput(i, f, v)
  \/ \E i \in 1..MaxStoredPayments, v \in PaymentAmountInputs : onPaymentInput(i, v)
  \/ debounceFires

SpecDebounce == Init /\ [][NextDebounce]_vars

\* the query layer, asked one question about a store the editor has filled
InitQuery ==
  /\ now \in {QueryDay * TicksPerDay, QueryDay * TicksPerDay + 1}
  /\ \E samples \in QueryStores :
       store = [id \in DOMAIN samples |-> QueryInvoice(id, samples[id])]
  /\ settings = << >>
  /\ currentInvoice = Null
  /\ nextId = MaxIds
  /\ yearMonth = 0
  /\ importing = Null
  /\ steps = 0
  /\ invoice = Null
  /\ result = Null
  /\ call = Null
  /\ exported = Null
  /\ pending = Null
  /\ deleted = {}

NextQuery ==
  \/ \E filter \in InvoiceFilters : callGetFilteredInvoices(filter)
  \/ callGetInvoiceSummary
  \/ renderAnalytics

SpecQuery == InitQuery /\ [][NextQuery]_vars


\* ------------------------------------------------------- the store: claims

\* C1 (as claimed): no two stored invoices carry the same invoice number,
\* whatever creations, saves, duplications and deletions came before.
C1_NumbersNeverCollide ==
  \A a \in DOMAIN store : \A b \in DOMAIN store :
     a # b => store[a].number # store[b].number

\* C2: every step that creates an invoice (a blank one or a duplicate) numbers it
\* with the count of the other stored invoices plus one, in the current month;
\* and creating a blank invoice writes nothing to the store, so the sequence
\* value it used stays available to the next creation.
C2_NextSequenceIsCountPlusOne ==
  [][ nextId' = nextId + 1 =>
        LET id == nextId'
            created == IF id \in DOMAIN store' THEN store'[id] ELSE currentInvoice'
        IN  /\ created.id = id
            /\ created.number.seq = Cardinality(DOMAIN store' \ {id}) + 1
            /\ created.number.ym = yearMonth
            /\ id \notin DOMAIN store' => store' = store /\ settings' = settings
    ]_vars

\* two blank invoices were created one after the other, neither was saved, and
\* the second carries the sequence value the first was given
C2_Witness ==
  /\ nextId = 2
  /\ store = << >>
  /\ steps = 2
  /\ currentInvoice # Null
  /\ currentInvoice.id = 2
  /\ currentInvoice.number.seq = 1

\* C3 (as claimed): every stored invoice has the totals the engine computes from
\* the record's own items, adjustments and payments.
C3_StoredTotalsFresh ==
  \A id \in DOMAIN store : store[id].totals = calculateInvoiceTotals(store[id])

\* a step of SpecStore that is a call of `op`
Called(op) == steps' = steps + 1 /\ call'.op = op

\* the last call was a call of `op`
LastCall(op) == call # Null /\ call.op = op

\* C11: duplicateInvoice(id) of a stored invoice stores and returns a new record
\* under an id that was not in the store, with status draft, no payments,
\* amountPaid 0, balanceDue the original's grandTotal and createdAt = updatedAt =
\* the time of the call; the records stored before stay as they were.  (That
\* generateId() returns an id it has not returned before is taken from its
\* construction from the clock and a random text.)
C11_DuplicateSemantics ==
  [][ Called("duplicateInvoice") /\ call'.id \in DOMAIN store =>
        LET original == store[call'.id]
            duplicate == call'.value
        IN  /\ duplicate # Null
            /\ duplicate.id \notin DOMAIN store
            /\ DOMAIN store' = DOMAIN store \cup {duplicate.id}
            /\ store'[duplicate.id] = duplicate
            /\ \A id \in DOMAIN store : store'[id] = store[id]
            /\ duplicate.status = "draft"
            /\ duplicate.payments = << >>
            /\ duplicate.totals.amountPaid = 0
            /\ duplicate.totals.balanceDue = original.totals.grandTotal
            /\ duplicate.createdAt = now
            /\ duplicate.updatedAt = now
    ]_vars

\* a paid invoice with a payment was duplicated, later than it was written
C11_Witness ==
  /\ LastCall("duplicateInvoice")
  /\ call.value # Null
  /\ call.id \in DOMAIN store
  /\ store[call.id].status = "paid"
  /\ store[call.id].payments # << >>
  /\ store[call.id].totals.amountPaid > 0
  /\ call.value.createdAt > store[call.id].updatedAt

\* C12: duplicateInvoice(id) for an id that is not stored returns undefined and
\* changes nothing: no record added or modified, no setting changed, no id
\* taken, the next sequence as before.
C12_DuplicateNotFound ==
  [][ Called("duplicateInvoice") /\ call'.id \notin DOMAIN store =>
        /\ call'.value = Null
        /\ call'.outcome = "returned"
        /\ store' = store
        /\ settings' = settings
        /\ nextId' = nextId
        /\ getNextInvoiceSequence(store') = getNextInvoiceSequence(store)
    ]_vars

\* a missing id was duplicated while the store held a record
C12_Witness ==
  /\ LastCall("duplicateInvoice")
  /\ call.value = Null
  /\ call.id \notin DOMAIN store
  /\ store # << >>

\* C13: saveInvoice(invoice) is an upsert by id: getInvoice(invoice.id) then
\* returns the caller's record (updatedAt set by the call) with the totals the
\* caller supplied, the count grows by one exactly when the id was not stored,
\* and the other invoices and the settings are as before.
C13_SaveIsUpsert ==
  [][ Called("saveInvoice") =>
        LET inv == call'.invoice
            stored == getInvoice(store', inv.id)
        IN  /\ stored = [inv EXCEPT !.updatedAt = now]
            /\ stored.totals = inv.totals
            /\ Cardinality(DOMAIN store') =
                 Cardinality(DOMAIN store) + (IF inv.id \in DOMAIN store THEN 0 ELSE 1)
            /\ \A id \in DOMAIN store \ {inv.id} :
                 id \in DOMAIN store' /\ store'[id] = store[id]
            /\ settings' = settings
    ]_vars

\* a record whose totals are not those of its items was saved over a stored
\* record, next to another record and a setting
C13_Witness ==
  /\ LastCall("saveInvoice")
  /\ call.invoice.id \in DOMAIN store
  /\ store[call.invoice.id].totals # calculateInvoiceTotals(store[call.invoice.id])
  /\ store[call.invoice.id].updatedAt > store[call.invoice.id].createdAt
  /\ Cardinality(DOMAIN store) > 1
  /\ settings # << >>

\* C14 (as claimed): no step changes the createdAt of a stored invoice, and
\* every step that writes an invoice record (a new id, or a stored record
\* changed) leaves it with updatedAt = the time of the write.
C14_Timestamps ==
  [][ \A id \in DOMAIN store' :
        /\ id \in DOMAIN store => store'[id].createdAt = store[id].createdAt
        /\ (id \notin DOMAIN store \/ store'[id] # store[id]) =>
             store'[id].updatedAt = now
    ]_vars

\* C15: deleteInvoice(id) removes the record with that id and nothing else:
\* getInvoice(id) then returns undefined, the other invoices and the settings
\* are as before; for an id that is not stored the call returns as well and
\* the store is as before.
C15_DeleteRemovesOne ==
  [][ Called("deleteInvoice") =>
        /\ call'.outcome = "returned"
        /\ getInvoice(store', call'.id) = Null
        /\ DOMAIN store' = DOMAIN store \ {call'.id}
        /\ \A id \in DOMAIN store' : store'[id] = store[id]
        /\ settings' = settings
        /\ call'.id \notin DOMAIN store => store' = store
    ]_vars

\* an id that had been stored was deleted, and another invoice and a setting
\* are still there
C15_Witness ==
  /\ LastCall("deleteInvoice")
  /\ call.id \in 1..nextId
  /\ call.id \notin DOMAIN store
  /\ store # << >>
  /\ settings # << >>

\* the invoices and the settings of a document that parsed
DocInvoices(data) == IF "invoices" \in DOMAIN data THEN data.invoices ELSE << >>

DocSettings(data) == IF "settings" \in DOMAIN data THEN data.settings ELSE << >>

\* what a list of records says about each id: the last record with that id
RecordsById(records) ==
  LET ids == {records[i].id : i \in 1..Len(records)}
  IN  [id \in ids |->
         records[CHOOSE i \in 1..Len(records) :
                   /\ records[i].id = id
                   /\ \A j \in (i + 1)..Len(records) : records[j].id # id]]

\* what a list of key/value pairs says about each key: the last value
ValuesByKey(pairs) ==
  LET keys == {pairs[i].key : i \in 1..Len(pairs)}
  IN  [k \in keys |->
         pairs[CHOOSE i \in 1..Len(pairs) :
                 /\ pairs[i].key = k
                 /\ \A j \in (i + 1)..Len(pairs) : pairs[j].key # k].value]

\* `old` with the entries of `new` written over it
Overwritten(old, new) ==
  [x \in DOMAIN old \cup DOMAIN new |-> IF x \in DOMAIN new THEN new[x] ELSE old[x]]

\* the step on which an importData call with this `merge` returns
Completes(merge) ==
  /\ importing # Null
  /\ importing' = Null
  /\ call'.outcome = "returned"
  /\ call'.merge = merge

\* C16: when importData(document, merge = true) returns, the store holds for
\* every id of the document the document's record, whole, and every other
\* invoice as it was when the call was made; the settings hold for every key
\* of the document the document's value and every other setting as it was.
C16_MergeUpserts ==
  [][ Completes(TRUE) =>
        /\ store' = Overwritten(importing.before.invoices,
                                RecordsById(DocInvoices(call'.data)))
        /\ settings' = Overwritten(importing.before.settings,
                                   ValuesByKey(DocSettings(call'.data)))
    ]_vars

\* this device's backup was merged into a store that held invoice 1 (which the
\* backup overwrites), invoice 2 and a theme (which the backup does not hold)
C16_Witness ==
  /\ LastCall("importData")
  /\ call.merge
  /\ call.outcome = "returned"
  /\ call.data = OwnBackup
  /\ DOMAIN store = {1, 2}
  /\ store[1] = OwnBackup.invoices[1]
  /\ DOMAIN settings = {"lastInvoiceId", "theme"}

\* C17: when importData(document, merge = false) returns, the stored invoices
\* are exactly the document's, the stored settings exactly the document's, and
\* the value returned is the number of invoices in the document.
C17_ReplaceLeavesImportedSet ==
  [][ Completes(FALSE) =>
        /\ store' = RecordsById(DocInvoices(call'.data))
        /\ settings' = ValuesByKey(DocSettings(call'.data))
        /\ call'.value = Len(DocInvoices(call'.data))
    ]_vars

\* a document with two invoices and no setting replaced a store that had been
\* given invoice 2, which the document does not hold
C17_Witness ==
  /\ LastCall("importData")
  /\ ~call.merge
  /\ call.outcome = "returned"
  /\ call.value = 2
  /\ nextId = 2
  /\ steps = 4
  /\ 2 \notin DOMAIN store
  /\ settings = << >>

\* the entries of a list written so far, `rest` being what is left of it
Written(all, rest) == SubSeq(all, 1, Len(all) - Len(rest))

\* C18 (as claimed): while importData(document, merge = false) runs, the stores
\* hold either what they held when the call was made or the whole imported set.
C18_AllOrNothing ==
  importing # Null /\ ~importing.merge =>
    \/ /\ store = importing.before.invoices
       /\ settings = importing.before.settings
    \/ /\ store = RecordsById(DocInvoices(importing.data))
       /\ settings = ValuesByKey(DocSettings(importing.data))

\* C18 (amended): importData(document, merge = false) clears both collections
\* together before it writes: while the call runs the stores hold exactly the
\* records of the document written so far, in the document's order, and
\* nothing of what they held before; and as long as that call is the last one,
\* also after it failed or was interrupted, they hold records of the document
\* only.
C18_ClearedTogether ==
  /\ importing # Null /\ ~importing.merge =>
       /\ store = RecordsById(Written(DocInvoices(importing.data), importing.invoices))
       /\ settings = ValuesByKey(Written(DocSettings(importing.data), importing.settings))
       /\ importing.settings # DocSettings(importing.data) => importing.invoices = << >>
  /\ LastCall("importData") /\ ~call.merge /\ call.data # Unparseable =>
       /\ \A id \in DOMAIN store :
            \E i \in 1..Len(DocInvoices(call.data)) : DocInvoices(call.data)[i] = store[id]
       /\ \A k \in DOMAIN settings :
            \E i \in 1..Len(DocSettings(call.data)) :
               /\ HasKey(DocSettings(call.data)[i])
               /\ DocSettings(call.data)[i].key = k
               /\ DocSettings(call.data)[i].value = settings[k]

\* a replace import of two invoices into stores that held an invoice and a
\* setting has written its first invoice and not yet the second
C18_Witness ==
  /\ importing # Null
  /\ ~importing.merge
  /\ importing.before.invoices # << >>
  /\ importing.before.settings # << >>
  /\ Len(DocInvoices(importing.data)) = 2
  /\ Len(importing.invoices) = 1
  /\ Cardinality(DOMAIN store) = 1
  /\ settings = << >>

\* a document that does not have the snapshot shape: it does not parse, one of
\* its invoices has no id, or one of its settings no key
Malformed(data) ==
  \/ data = Unparseable
  \/ \E i \in 1..Len(DocInvoices(data)) : ~HasId(DocInvoices(data)[i])
  \/ \E i \in 1..Len(DocSettings(data)) : ~HasKey(DocSettings(data)[i])

\* C19 (as claimed): when importData fails on a malformed document, both
\* collections are as they were when the call was made.
C19_MalformedImportWritesNothing ==
  [][ /\ call' # Null
      /\ call' # call
      /\ call'.op = "importData"
      /\ call'.outcome = "failed"
      /\ Malformed(call'.data)
      => /\ store' = (IF importing = Null THEN store ELSE importing.before.invoices)
         /\ settings' = (IF importing = Null THEN settings ELSE importing.before.settings)
    ]_vars

\* C20 (as claimed): when a replace import of the document exportData()
\* returned is over, the stores hold the invoices and the settings (keys and
\* values) they held at the time of the export.
C20_ExportImportRoundTrip ==
  /\ LastCall("importData")
  /\ exported # Null
  /\ call.data = exported.document
  /\ ~call.merge
  /\ call.outcome \in {"returned", "failed"}
  => /\ store = exported.invoices
     /\ settings = exported.settings

\* ------------------------------------------------ totals engine: claims

\* what the engine reads of an invoice record
EngineInput(inv) ==
  [items |-> inv.items, adjustments |-> inv.adjustments, payments |-> inv.payments]

RECURSIVE SeqSum(_)
SeqSum(ns) == IF ns = <<>> THEN 0 ELSE ns[1] + SeqSum(Tail(ns))

\* quantity_i * unitPrice_i
LineAmount(item) == item.quantity * item.unitPrice

\* quantity_i * unitPrice_i * discountPct_i / 100 (0 when unset)
LineDiscount(item) == (LineAmount(item) * OrZero(item.discountPct)) \div 100

\* (amount after the item's own discount) * taxRatePct_i / 100 (0 when unset)
LineTax(item) ==
  ((LineAmount(item) - LineDiscount(item)) * OrZero(item.taxRatePct)) \div 100

LineDiscounts(inv) ==
  SeqSum([i \in 1..Len(inv.items) |-> LineDiscount(inv.items[i])])

LineTaxes(inv) ==
  SeqSum([i \in 1..Len(inv.items) |-> LineTax(inv.items[i])])

PaidAmounts(inv) ==
  SeqSum([i \in 1..Len(inv.payments) |-> inv.payments[i].amount])

NoGlobalAdjustments(inv) ==
  /\ ~Truthy(inv.adjustments.shipping)
  /\ ~Truthy(inv.adjustments.globalDiscountPct)
  /\ ~Truthy(inv.adjustments.globalTaxPct)

\* C4: the Totals returned by calculateInvoiceTotals satisfy
\* grandTotal = subtotal - discount + shipping + tax, with shipping =
\* adjustments.shipping (0 if unset), discount = item discounts + global
\* discount and tax = item taxes + global tax.
C4_GrandTotalIdentity ==
  result # Null =>
    LET shipping       == OrZero(invoice.adjustments.shipping)
        globalDiscount ==
          ((result.subtotal - LineDiscounts(invoice))
             * OrZero(invoice.adjustments.globalDiscountPct)) \div 100
        globalTax      ==
          ((result.subtotal - LineDiscounts(invoice) - globalDiscount + shipping)
             * OrZero(invoice.adjustments.globalTaxPct)) \div 100
    IN  /\ result.grandTotal
             = result.subtotal - result.discount + shipping + result.tax
        /\ result.discount = LineDiscounts(invoice) + globalDiscount
        /\ result.tax = LineTaxes(invoice) + globalTax

\* C4 witness: totals of an invoice with items, item and global discount,
\* item and global tax and shipping all present
C4_Witness ==
  /\ result # Null
  /\ Len(invoice.items) = 2
  /\ Truthy(invoice.adjustments.shipping)
  /\ LineDiscounts(invoice) > 0
  /\ result.discount > LineDiscounts(invoice)
  /\ LineTaxes(invoice) > 0
  /\ result.tax > LineTaxes(invoice)

\* C5: balanceDue = grandTotal - amountPaid with amountPaid the sum of all
\* payment amounts; an overpaid invoice has a negative balance, not clamped.
C5_BalanceIdentity ==
  result # Null =>
    /\ result.amountPaid = PaidAmounts(invoice)
    /\ result.balanceDue = result.grandTotal - PaidAmounts(invoice)

\* C5 witness: an overpaid invoice whose returned balance is negative
C5_Witness ==
  /\ result # Null
  /\ result.grandTotal > 0
  /\ result.amountPaid > result.grandTotal
  /\ result.balanceDue < 0

BlankInput == EngineInput(createBlankInvoice(1, 1, 0))

\* C6: with items = [], payments = [] and shipping, globalDiscountPct,
\* globalTaxPct unset or 0, all six Totals fields are 0; these are also the
\* Totals createBlankInvoice gives a fresh invoice.
C6_ZeroInvoice ==
  result # Null =>
    /\ (invoice.items = <<>> /\ invoice.payments = <<>> /\ NoGlobalAdjustments(invoice))
         => /\ result.subtotal = 0 /\ result.tax = 0 /\ result.discount = 0
            /\ result.grandTotal = 0 /\ result.amountPaid = 0
            /\ result.balanceDue = 0
    /\ invoice = BlankInput => result = createBlankInvoice(1, 1, 0).totals

\* C6 witness: the engine applied to a freshly created blank invoice
C6_Witness == result # Null /\ invoice = BlankInput

\* C7 as claimed: zero items => all Totals fields zero, whatever the
\* adjustments and payments.
C7_AsClaimed ==
  (result # Null /\ invoice.items = <<>>) =>
    /\ result.subtotal = 0 /\ result.tax = 0 /\ result.discount = 0
    /\ result.grandTotal = 0 /\ result.amountPaid = 0 /\ result.balanceDue = 0

\* C7 amended: with zero items subtotal and discount are zero, and the rest
\* is what shipping, globalTaxPct and the payments make it:
\* tax = shipping * globalTaxPct / 100, grandTotal = shipping + tax,
\* amountPaid = sum of payments, balanceDue = grandTotal - amountPaid.
C7_ZeroItems ==
  (result # Null /\ invoice.items = <<>>) =>
    LET shipping == OrZero(invoice.adjustments.shipping)
        tax      == (shipping * OrZero(invoice.adjustments.globalTaxPct)) \div 100
    IN  /\ result.subtotal = 0
        /\ result.discount = 0
        /\ result.tax = tax
        /\ result.grandTotal = shipping + tax
        /\ result.amountPaid = PaidAmounts(invoice)
        /\ result.balanceDue = shipping + tax - PaidAmounts(invoice)

\* C7 witness: zero items, with shipping, a global tax and a payment
C7_Witness ==
  /\ result # Null
  /\ invoice.items = <<>>
  /\ result.tax > 0
  /\ result.grandTotal > result.tax
  /\ result.amountPaid > 0

OrderExample ==
  [items |-> << [quantity |-> 2, unitPrice |-> 100 * Scale,
                 discountPct |-> Some(10), taxRatePct |-> Some(20)] >>,
   adjustments |-> [shipping |-> Unset, globalDiscountPct |-> Unset,
                    globalTaxPct |-> Unset],
   payments |-> << >>]

\* C9: item tax is computed on the item's amount after its own discount: for
\* one item {q, p, d, t} and no global adjustments, subtotal = q*p,
\* discount = q*p*d/100, tax = (q*p - q*p*d/100)*t/100 and
\* grandTotal = subtotal - discount + tax; q=2, p=100, d=10, t=20 gives
\* 200, 20, 36, 216 and balanceDue 216.
C9_ItemTaxAfterItemDiscount ==
  result # Null =>
    /\ (Len(invoice.items) = 1 /\ NoGlobalAdjustments(invoice)) =>
         LET q == invoice.items[1].quantity
             p == invoice.items[1].unitPrice
             d == OrZero(invoice.items[1].discountPct)
             t == OrZero(invoice.items[1].taxRatePct)
         IN  /\ result.subtotal = q * p
             /\ result.discount = (q * p * d) \div 100
             /\ result.tax = ((q * p - (q * p * d) \div 100) * t) \div 100
             /\ result.grandTotal = result.subtotal - result.discount + result.tax
    /\ invoice = OrderExample =>
         result = [subtotal |-> 200 * Scale, tax |-> 36 * Scale,
                   discount |-> 20 * Scale, grandTotal |-> 216 * Scale,
                   amountPaid |-> 0, balanceDue |-> 216 * Scale]

\* C9 witness: the engine applied to the example item
C9_Witness == result # Null /\ invoice = OrderExample

GlobalTaxExample ==
  [items |-> << [quantity |-> 1, unitPrice |-> 100 * Scale,
                 discountPct |-> Unset, taxRatePct |-> Unset] >>,
   adjustments |-> [shipping |-> Some(5 * Scale), globalDiscountPct |-> Some(10),
                    globalTaxPct |-> Some(10)],
   payments |-> << >>]

\* C10: global tax is computed on the amount after item and global discounts
\* plus shipping: globalTax = ((subtotal - itemDiscounts)
\* * (1 - globalDiscountPct/100) + shipping) * globalTaxPct/100; subtotal
\* 100, globalDiscountPct 10, shipping 5, globalTaxPct 10 gives globalTax 9.5
\* and grandTotal 104.5.
C10_GlobalTaxBase ==
  result # Null =>
    LET afterDiscounts ==
          ((result.subtotal - LineDiscounts(invoice))
             * (100 - OrZero(invoice.adjustments.globalDiscountPct))) \div 100
        globalTax ==
          ((afterDiscounts + OrZero(invoice.adjustments.shipping))
             * OrZero(invoice.adjustments.globalTaxPct)) \div 100
    IN  /\ result.tax - LineTaxes(invoice) = globalTax
        /\ invoice = GlobalTaxExample =>
              /\ result.tax = (95 * Scale) \div 10
              /\ result.grandTotal = (1045 * Scale) \div 10

\* C10 witness: the engine applied to the global tax example
C10_Witness == result # Null /\ invoice = GlobalTaxExample

\* -------------------------------------------------- the query layer: claims

\* `query` occurs in `text` when the case of the letters is ignored
OccursIgnoringCase(text, query) ==
  \E i \in 0..(Len(text) - Len(query)) :
    \A k \in 1..Len(query) :
      toLowerCase(<<text[i + k]>>) = toLowerCase(<<query[k]>>)

\* the texts of an invoice a search looks into
SearchedTexts(inv) ==
  {NumberText(inv.number), inv.client.name, inv.seller.name}
    \cup (IF inv.notes = Unset THEN {} ELSE {inv.notes[1]})

\* `inv` satisfies every criterion that `filter` gives
Satisfies(inv, filter) ==
  /\ (filter.status # Unset /\ filter.status[1] # << >>)
       => \E i \in DOMAIN filter.status[1] : filter.status[1][i] = inv.status
  /\ filter.dateFrom # Unset => inv.createdAt >= filter.dateFrom[1]
  /\ filter.dateTo # Unset => inv.createdAt <= filter.dateTo[1]
  /\ (filter.searchQuery # Unset /\ filter.searchQuery[1] # << >>)
       => \E text \in SearchedTexts(inv) :
            OccursIgnoringCase(text, filter.searchQuery[1])

\* the elements of a sequence
Elements(seq) == {seq[i] : i \in DOMAIN seq}

\* C21: getFilteredInvoices(filter) returns, each once, exactly the stored
\* invoices that satisfy every criterion given (status in the set, createdAt
\* from dateFrom on, createdAt up to dateTo, the text found in number, client
\* name, seller name or notes whatever the case); a criterion that is absent,
\* an empty status list and an empty text exclude nothing; the store is left
\* as it was.
C21_FilterIsConjunction ==
  [][Called("getFilteredInvoices") =>
       LET matching == {id \in DOMAIN store : Satisfies(store[id], call'.filter)}
       IN  /\ Elements(call'.value) = {store[id] : id \in matching}
           /\ Len(call'.value) = Cardinality(matching)
           /\ store' = store]_vars

\* a filter of four criteria has kept some of the stored invoices and left
\* out others
C21_Witness ==
  /\ LastCall("getFilteredInvoices")
  /\ call.filter.status # Unset /\ call.filter.status[1] # << >>
  /\ call.filter.dateFrom # Unset
  /\ call.filter.dateTo # Unset
  /\ call.filter.searchQuery # Unset /\ call.filter.searchQuery[1] # << >>
  /\ Len(call.value) > 0
  /\ Len(call.value) < Cardinality(DOMAIN store)

\* C22: in the sequence getFilteredInvoices returns no invoice comes before one
\* that was created later.
C22_NewestFirst ==
  [][Called("getFilteredInvoices") =>
       \A i \in 1..(Len(call'.value) - 1) :
         call'.value[i].createdAt >= call'.value[i + 1].createdAt]_vars

\* the result holds an invoice created later than one the store keeps before it
C22_Witness ==
  /\ LastCall("getFilteredInvoices")
  /\ \E i \in 1..(Len(call.value) - 1) :
       /\ call.value[i].createdAt > call.value[i + 1].createdAt
       /\ call.value[i].id > call.value[i + 1].id

BucketOf(daysOverdue) ==
  CASE daysOverdue <= 0 -> "Current"
    [] daysOverdue \in 1..30 -> "1-30 days"
    [] daysOverdue \in 31..60 -> "31-60 days"
    [] daysOverdue \in 61..90 -> "61-90 days"
    [] daysOverdue > 90 -> "90+ days"

\* C24: the aging report lists, each once, exactly the invoices it was given
\* whose balanceDue is positive; the daysOverdue d of a row is the whole number
\* of days from the due date to today, rounded down (d days <= today - dueDate
\* < d + 1 days) and its bucket the one d falls in; no row comes before one
\* that is more days overdue; the total is the sum of the rows' balanceDue.
C24_AgingReport ==
  [][Called("renderAgingReport") =>
       LET rows == call'.value.rows
           unpaid == {id \in DOMAIN store : store[id].totals.balanceDue > 0}
       IN  /\ {rows[i].invoice : i \in DOMAIN rows} = {store[id] : id \in unpaid}
           /\ Len(rows) = Cardinality(unpaid)
           /\ \A i \in DOMAIN rows :
                LET elapsed == now - rows[i].invoice.dueDate * TicksPerDay
                IN  /\ rows[i].daysOverdue * TicksPerDay <= elapsed
                    /\ elapsed < (rows[i].daysOverdue + 1) * TicksPerDay
                    /\ rows[i].ageBucket = BucketOf(rows[i].daysOverdue)
           /\ \A i \in 1..(Len(rows) - 1) :
                rows[i].daysOverdue >= rows[i + 1].daysOverdue
           /\ rows # << >> =>
                call'.value.total =
                  SeqSum([i \in DOMAIN rows |-> rows[i].invoice.totals.balanceDue])]_vars

\* a report of three rows, the last of them not yet due, over a store that
\* also holds an invoice without a balance
C24_Witness ==
  /\ LastCall("renderAgingReport")
  /\ \E i \in DOMAIN call.value.rows :
       call.value.rows[i].daysOverdue < 0
  /\ \E i \in DOMAIN call.value.rows :
       call.value.rows[i].daysOverdue = 90
  /\ Len(call.value.rows) = 2
  /\ Cardinality(DOMAIN store) = 3

\* C26: duplicateInvoice(id) copies and does not compute: the items, the
\* adjustments and the subtotal, tax, discount and grandTotal of the
\* new record are those stored with the original, also when the original's
\* stored totals are not the totals of its items; the original stays as it was
\* and the store holds one record more.
C26_DuplicateCopies ==
  [][ Called("duplicateInvoice") /\ call'.id \in DOMAIN store =>
        LET original == store[call'.id]
            duplicate == call'.value
        IN  /\ duplicate.items = original.items
            /\ duplicate.adjustments = original.adjustments
            /\ duplicate.totals.subtotal = original.totals.subtotal
            /\ duplicate.totals.tax = original.totals.tax
            /\ duplicate.totals.discount = original.totals.discount
            /\ duplicate.totals.grandTotal = original.totals.grandTotal
            /\ store'[call'.id] = original
            /\ Cardinality(DOMAIN store') = Cardinality(DOMAIN store) + 1
    ]_vars

\* an invoice was duplicated whose stored grandTotal is not the one its items
\* give
C26_Witness ==
  /\ LastCall("duplicateInvoice")
  /\ call.value # Null
  /\ call.id \in DOMAIN store
  /\ store[call.id].items # << >>
  /\ store[call.id].totals.grandTotal
       # calculateInvoiceTotals(store[call.id]).grandTotal
  /\ call.value.totals.grandTotal = store[call.id].totals.grandTotal

\* ------------------------------------------------------ the editor: claims

\* C25 (as claimed): whenever the payments of the invoice in the editor change
\* (a payment is added, its amount is edited, it is removed), the invoice is
\* paid afterwards if its balanceDue is then 0 and its grandTotal positive, and
\* an invoice that was paid is sent afterwards if its balanceDue is then
\* positive.
C25_StatusFollowsBalance ==
  [][(/\ currentInvoice # Null
      /\ currentInvoice' # Null
      /\ currentInvoice'.payments # currentInvoice.payments)
       => /\ (/\ currentInvoice'.totals.balanceDue = 0
              /\ currentInvoice'.totals.grandTotal > 0)
               => currentInvoice'.status = "paid"
          /\ (/\ currentInvoice.status = "paid"
              /\ currentInvoice'.totals.balanceDue > 0)
               => currentInvoice'.status = "sent"]_vars

\* C28 (as claimed): deleting is irreversible: once deleteInvoice(id) of the
\* history view has removed an invoice, no action of the editor (save,
\* duplicate, download) stores a record under that id again, also when the
\* deleted invoice is the one open in the editor.  (Steps of an import, which
\* writes what its document holds, are left aside.)
C28_DeleteIsIrreversible ==
  [][importing = Null => \A id \in deleted : id \notin DOMAIN store']_vars

\* a handler has rewritten the stored invoice `id`, which is not the one open
\* in the editor: of the handlers, markInvoiceAsPaid(id) alone does that
MarkedAsPaid(id) ==
  /\ importing = Null
  /\ importing' = Null
  /\ currentInvoice # Null
  /\ currentInvoice.id # id
  /\ id \in DOMAIN store'
  /\ store'[id] # store[id]

\* C29 (as claimed): markInvoiceAsPaid(id) of a stored invoice whose stored
\* balanceDue is positive appends one payment of that balanceDue and stores the
\* invoice as paid with its totals computed anew: the stored record then has
\* balanceDue 0 and amountPaid equal to grandTotal; no other stored invoice
\* changes.
C29_MarkAsPaidSettles ==
  [][\A id \in DOMAIN store :
       (MarkedAsPaid(id) /\ store[id].totals.balanceDue > 0) =>
         /\ store'[id].payments =
              Append(store[id].payments, [amount |-> store[id].totals.balanceDue])
         /\ store'[id].status = "paid"
         /\ store'[id].totals = calculateInvoiceTotals(store'[id])
         /\ store'[id].totals.balanceDue = 0
         /\ store'[id].totals.amountPaid = store'[id].totals.grandTotal
         /\ DOMAIN store' = DOMAIN store
         /\ \A other \in DOMAIN store \ {id} : store'[other] = store[other]]_vars

\* "lastInvoiceId" is set and names a stored invoice
LastInvoiceStored ==
  /\ "lastInvoiceId" \in DOMAIN settings
  /\ settings["lastInvoiceId"] \in DOMAIN store

\* C30: when the page has loaded, the invoice "lastInvoiceId" names is the
\* current one if it is stored; if the setting is absent or names an invoice
\* that is not stored (any more), the current invoice is a blank draft whose
\* number carries the sequence (number of stored invoices + 1) and whose totals
\* are zero.  Loading writes nothing: store and settings stay as they were.
C30_InitLoadsOrBlank ==
  [][(currentInvoice = Null /\ currentInvoice' # Null) =>
       /\ IF LastInvoiceStored
          THEN currentInvoice' = store[settings["lastInvoiceId"]]
          ELSE /\ currentInvoice'.status = "draft"
               /\ currentInvoice'.number.seq = Cardinality(DOMAIN store) + 1
               /\ currentInvoice'.items = << >>
               /\ currentInvoice'.payments = << >>
               /\ \A t \in DOMAIN currentInvoice'.totals :
                    currentInvoice'.totals[t] = 0
       /\ store' = store
       /\ settings' = settings]_vars

\* the page was reloaded while an import was writing (its call never
\* returned), and this third handler call, which can only be init(), found no
\* "lastInvoiceId" and one imported invoice: a blank draft with the sequence 2
\* is in the editor
C30_Witness ==
  /\ steps = 3
  /\ call # Null
  /\ call.outcome = "pending"
  /\ importing = Null
  /\ currentInvoice # Null
  /\ ~ LastInvoiceStored
  /\ Cardinality(DOMAIN store) = 1
  /\ currentInvoice.id \notin DOMAIN store
  /\ currentInvoice.status = "draft"
  /\ currentInvoice.number.seq = 2
  /\ currentInvoice.totals.grandTotal = 0

\* C27 (as claimed): a debounced edit of a line item or a payment reaches only
\* the invoice that was in the editor when the edit was typed: when the user
\* has moved to another invoice (select, edit from history, new, duplicate)
\* before the timer fires, the timer leaves that invoice as it is.
C27_PendingEditStaysWithItsInvoice ==
  [][(/\ pending # Null
      /\ pending' = Null
      /\ steps' = steps
      /\ currentInvoice # Null
      /\ currentInvoice' # Null
      /\ pending.entered # currentInvoice.id)
       => currentInvoice' = currentInvoice]_vars

====
